---- MODULE Spec2Model ----
(***************************************************************************)
(* Model of src/modules/geodesy/src/path_interpolation.py: the two path    *)
(* interpolators (PathInterpolatorECEF, PathInterpolatorUTM), their        *)
(* spacing setter, the density computation and the interpolation loop of   *)
(* interpolation_publish_ECEF / interpolation_publish_UTM.                 *)
(*                                                                         *)
(* Numbers.  Coarse coordinates are integers (metres).  Every fine value   *)
(* x0 + (x1-x0)*(n/pointDensity) is kept as an exact reduced fraction      *)
(* <<numerator, denominator>>; the rounding of Python floats is abstracted *)
(* away.  A distance is carried as its square, and int(d / (c / 100.0)) is *)
(* computed exactly from the square; the spacings of the model are those   *)
(* for which c / 100.0 is an exact binary fraction, so the exact value and *)
(* the float value of the density agree.                                   *)
(***************************************************************************)
EXTENDS Integers, Sequences, FiniteSets, TLC

\* ---------------------------------------------------------------- bounds
MaxCoarsePoints == 3
MaxCoord == 1

\* coarse coordinates, in metres from the local origin
Coord == 0..MaxCoord

\* ------------------------------------------------------ program constants
\* centimetersPerPoint default of both constructors (lines 34, 153)
DefaultSpacing == 25
\* literal 25 passed as centimetersPerPoint at lines 73, 175, 189
HardCodedSpacing == 25

\* spacings a caller may hand to the constructor or the setter
Spacings == {0 - 25, 0, DefaultSpacing, 100}

VARIABLES
    frame,                    \* "ECEF" or "UTM": the interpolator object in use
    pc,                       \* "idle", "loop", "done" (publishing), "error"
    centimetersPerPoint,      \* self.centimetersPerPoint
    i,                        \* loop index of interpolation_publish_*
    numberOfCoarsePoints,
    relativeX, relativeY, relativeZ,
    xInterpolatedPositions, yInterpolatedPositions, zInterpolatedPositions,
    relativeEastings, relativeNorthings,
    eastingInterpolatedPositions, northingInterpolatedPositions,
    calls,                    \* history: one record per interpolate_* call
    nextId                    \* next unused list identity (allocation)

vars == <<frame, pc, centimetersPerPoint, i, numberOfCoarsePoints,
          relativeX, relativeY, relativeZ,
          xInterpolatedPositions, yInterpolatedPositions, zInterpolatedPositions,
          relativeEastings, relativeNorthings,
          eastingInterpolatedPositions, northingInterpolatedPositions,
          calls, nextId>>

ecefVars == <<relativeX, relativeY, relativeZ,
              xInterpolatedPositions, yInterpolatedPositions, zInterpolatedPositions>>
utmVars == <<relativeEastings, relativeNorthings,
             eastingInterpolatedPositions, northingInterpolatedPositions>>

\* ------------------------------------------------------------ arithmetic
Abs(a) == IF a < 0 THEN 0 - a ELSE a

RECURSIVE GCD(_, _)
GCD(a, b) == IF b = 0 THEN a ELSE GCD(b, a % b)

\* the fraction num/den (den > 0) in lowest terms
Rat(num, den) ==
    LET g == GCD(Abs(num), den)
    IN  <<(Abs(num) \div g) * (IF num < 0 THEN 0 - 1 ELSE 1), den \div g>>

\* a coarse (integer) value as a fraction
FromInt(c) == <<c, 1>>

\* Python list indexing: a negative index counts from the end
PyIndex(list, k) == IF k >= 0 THEN list[k + 1] ELSE list[Len(list) + k + 1]

\* range(n) is empty for n <= 0
Range(n) == IF n > 0 THEN 1..n ELSE {}

\* square of the distance returned by the parent's euclidian_distance_3d
euclidian_distance_3d_squared(x1, y1, z1, x2, y2, z2) ==
    (x2 - x1) * (x2 - x1) + (y2 - y1) * (y2 - y1) + (z2 - z1) * (z2 - z1)

\* square of the distance returned by the parent's euclidian_distance_2d
euclidian_distance_2d_squared(x1, y1, x2, y2) ==
    (x2 - x1) * (x2 - x1) + (y2 - y1) * (y2 - y1)

\* int(sqrt(d2) / (c / 100.0)) for c # 0: int() truncates toward zero
IntOfQuotient(d2, c) ==
    LET a == Abs(c)
        k == CHOOSE k \in 0..((100 * d2) \div a) :
                /\ k * k * a * a <= 10000 * d2
                /\ (k + 1) * (k + 1) * a * a > 10000 * d2
    IN  IF c > 0 THEN k ELSE 0 - k

\* x0 + (x1-x0)*(n/pointDensity), true division, pointDensity >= 1
InterpolatedValue(x0, x1, n, pointDensity) ==
    Rat(x0 * pointDensity + (x1 - x0) * n, pointDensity)

\* ------------------------------------------------------- ECEF interpolator
\* raised: the float division by (centimetersPerPoint / 100.0) = 0.0 raises
\* ZeroDivisionError
get_point_density_ECEF(x1, y1, z1, x2, y2, z2, cpp) ==
    IF cpp = 0
    THEN [raised |-> TRUE, value |-> 0]
    ELSE [raised |-> FALSE,
          value |-> IntOfQuotient(euclidian_distance_3d_squared(x1, y1, z1, x2, y2, z2), cpp)]

\* the three lists built by one "for n in range(pointDensity)" loop
FinePoints(c0, c1, pointDensity) ==
    [n \in Range(pointDensity) |-> InterpolatedValue(c0, c1, n - 1, pointDensity)]

\* interpolate_ECEF with the final-point branch storing its literal spacing in
\* the object (self.centimetersPerPoint = 25) instead of passing it
interpolate_ECEF_stores_spacing(idx, relX, relY, relZ, nCoarse, selfCpp, freshId) ==
    LET vanilla == idx < nCoarse - 1
        corner  == idx = nCoarse - 1
        lo == IF vanilla THEN idx ELSE idx - 1
        hi == IF vanilla THEN idx + 1 ELSE idx
        cpp == IF vanilla THEN selfCpp ELSE HardCodedSpacing
        d == get_point_density_ECEF(PyIndex(relX, lo), PyIndex(relX, lo), PyIndex(relZ, lo),
                                    PyIndex(relX, hi), PyIndex(relY, hi), PyIndex(relZ, hi),
                                    cpp)
        pointDensity == d.value
        active == (vanilla \/ corner) /\ ~d.raised
    IN  [raised |-> (vanilla \/ corner) /\ d.raised,
         branch |-> IF vanilla THEN "vanilla" ELSE IF corner THEN "corner" ELSE "none",
         lo |-> lo,
         hi |-> hi,
         cpp |-> cpp,
         pointDensity |-> pointDensity,
         fine |-> IF active
                  THEN << FinePoints(PyIndex(relX, lo), PyIndex(relX, hi), pointDensity),
                          FinePoints(PyIndex(relY, lo), PyIndex(relY, hi), pointDensity),
                          FinePoints(PyIndex(relZ, lo), PyIndex(relZ, hi), pointDensity) >>
                  ELSE << <<>>, <<>>, <<>> >>,
         ids |-> <<freshId, freshId + 1, freshId + 2>>,
         coarse |-> <<relX, relY, relZ>>,
         centimetersPerPoint |-> IF corner THEN HardCodedSpacing ELSE selfCpp]

\* One call of interpolate_ECEF on the object whose spacing is selfCpp.  The
\* result carries the returned lists, their identities (three lists created
\* by the call, the first of them being list number freshId), the arguments
\* and the object's spacing as the call leaves them, and the density call.
interpolate_ECEF(idx, relX, relY, relZ, nCoarse, selfCpp, freshId) ==
    LET vanilla == idx < nCoarse - 1
        corner  == idx = nCoarse - 1
        lo == IF vanilla THEN idx ELSE idx - 1
        hi == IF vanilla THEN idx + 1 ELSE idx
        cpp == IF vanilla THEN selfCpp ELSE HardCodedSpacing
        d == get_point_density_ECEF(PyIndex(relX, lo), PyIndex(relX, lo), PyIndex(relZ, lo),
                                    PyIndex(relX, hi), PyIndex(relY, hi), PyIndex(relZ, hi),
                                    cpp)
        pointDensity == d.value
        active == (vanilla \/ corner) /\ ~d.raised
    IN  [raised |-> (vanilla \/ corner) /\ d.raised,
         branch |-> IF vanilla THEN "vanilla" ELSE IF corner THEN "corner" ELSE "none",
         lo |-> lo,
         hi |-> hi,
         cpp |-> cpp,
         pointDensity |-> pointDensity,
         fine |-> IF active
                  THEN << FinePoints(PyIndex(relX, lo), PyIndex(relX, hi), pointDensity),
                          FinePoints(PyIndex(relY, lo), PyIndex(relY, hi), pointDensity),
                          FinePoints(PyIndex(relZ, lo), PyIndex(relZ, hi), pointDensity) >>
                  ELSE << <<>>, <<>>, <<>> >>,
         ids |-> <<freshId, freshId + 1, freshId + 2>>,
         coarse |-> <<relX, relY, relZ>>,
         centimetersPerPoint |-> selfCpp]

\* -------------------------------------------------------- UTM interpolator
get_point_density_UTM(relativeEasting1, relativeNorthing1, relativeEasting2, relativeNorthing2, cpp) ==
    IF cpp = 0
    THEN [raised |-> TRUE, value |-> 0]
    ELSE [raised |-> FALSE,
          value |-> IntOfQuotient(
                        euclidian_distance_2d_squared(relativeEasting1, relativeEasting1,
                                                      relativeEasting2, relativeNorthing2),
                        cpp)]

interpolate_UTM(idx, relE, relN, nCoarse, selfCpp, freshId) ==
    LET vanilla == idx < nCoarse - 1
        corner  == idx = nCoarse - 1
        lo == IF vanilla THEN idx ELSE idx - 1
        hi == IF vanilla THEN idx + 1 ELSE idx
        cpp == HardCodedSpacing
        d == get_point_density_UTM(PyIndex(relE, lo), PyIndex(relE, lo),
                                   PyIndex(relE, hi), PyIndex(relN, hi), cpp)
        pointDensity == d.value
        active == (vanilla \/ corner) /\ ~d.raised
    IN  [raised |-> (vanilla \/ corner) /\ d.raised,
         branch |-> IF vanilla THEN "vanilla" ELSE IF corner THEN "corner" ELSE "none",
         lo |-> lo,
         hi |-> hi,
         cpp |-> cpp,
         pointDensity |-> pointDensity,
         fine |-> IF active
                  THEN << FinePoints(PyIndex(relE, lo), PyIndex(relE, hi), pointDensity),
                          FinePoints(PyIndex(relN, lo), PyIndex(relN, hi), pointDensity) >>
                  ELSE << <<>>, <<>> >>,
         ids |-> <<freshId, freshId + 1>>,
         coarse |-> <<relE, relN>>,
         centimetersPerPoint |-> selfCpp]

\* --------------------------------------------------------------- Init
\* sequences of n coordinates whose first sample is the local origin
\* (global_to_relative_* subtracts the first sample from every sample)
RelativeArrays(n) ==
    IF n = 0 THEN { <<>> }
    ELSE { [k \in 1..n |-> IF k = 1 THEN 0 ELSE f[k]] : f \in [1..n -> Coord] }

\* identities of the coarse lists handed to interpolate_*
CoarseIds == IF frame = "ECEF" THEN {1, 2, 3} ELSE {1, 2}

Init ==
    /\ frame \in {"ECEF", "UTM"}
    /\ pc = "idle"
    /\ centimetersPerPoint \in Spacings
    \* the UTM constructor hands its spacing to the parent constructor, which
    \* may check it: only a positive one is taken to survive construction
    /\ frame = "UTM" => centimetersPerPoint > 0
    /\ i = 0
    /\ numberOfCoarsePoints = 0
    /\ \E n \in 0..MaxCoarsePoints :
          IF frame = "ECEF"
          THEN /\ relativeX \in RelativeArrays(n)
               /\ relativeY \in RelativeArrays(n)
               /\ relativeZ \in RelativeArrays(n)
               /\ relativeEastings = <<>>
               /\ relativeNorthings = <<>>
          ELSE /\ relativeEastings \in RelativeArrays(n)
               /\ relativeNorthings \in RelativeArrays(n)
               /\ relativeX = <<>>
               /\ relativeY = <<>>
               /\ relativeZ = <<>>
    /\ xInterpolatedPositions = <<>>
    /\ yInterpolatedPositions = <<>>
    /\ zInterpolatedPositions = <<>>
    /\ eastingInterpolatedPositions = <<>>
    /\ northingInterpolatedPositions = <<>>
    /\ calls = <<>>
    /\ nextId = IF frame = "ECEF" THEN 4 ELSE 3

\* -------------------------------------------------------------- actions
set_dist_between_points(c) ==
    /\ pc = "idle"
    /\ centimetersPerPoint' = c
    /\ UNCHANGED <<frame, pc, i, numberOfCoarsePoints, ecefVars, utmVars, calls, nextId>>

\* lines 111-116: empty accumulators, numberOfCoarsePoints = len(relativeX)
interpolation_publish_ECEF ==
    /\ pc = "idle"
    /\ frame = "ECEF"
    /\ pc' = "loop"
    /\ i' = 0
    /\ numberOfCoarsePoints' = Len(relativeX)
    /\ xInterpolatedPositions' = <<>>
    /\ yInterpolatedPositions' = <<>>
    /\ zInterpolatedPositions' = <<>>
    /\ UNCHANGED <<frame, centimetersPerPoint, relativeX, relativeY, relativeZ,
                   utmVars, calls, nextId>>

CallRecord(r) ==
    [i |-> i, branch |-> r.branch, lo |-> r.lo, hi |-> r.hi,
     centimetersPerPoint |-> r.cpp, selfSpacing |-> centimetersPerPoint,
     raised |-> r.raised, pointDensity |-> r.pointDensity,
     fine |-> r.fine, ids |-> r.ids]

\* lines 118-123: one iteration of the loop
LoopStepECEF ==
    /\ pc = "loop"
    /\ frame = "ECEF"
    /\ i < numberOfCoarsePoints
    /\ \E r \in {interpolate_ECEF(i, relativeX, relativeY, relativeZ,
                                 numberOfCoarsePoints, centimetersPerPoint, nextId)} :
           /\ calls' = Append(calls, CallRecord(r))
           /\ nextId' = nextId + 3
           /\ relativeX' = r.coarse[1]
           /\ relativeY' = r.coarse[2]
           /\ relativeZ' = r.coarse[3]
           /\ centimetersPerPoint' = r.centimetersPerPoint
           /\ IF r.raised
              THEN /\ pc' = "error"
                   /\ UNCHANGED <<i, xInterpolatedPositions, yInterpolatedPositions,
                                  zInterpolatedPositions>>
              ELSE /\ pc' = "loop"
                   /\ i' = i + 1
                   /\ xInterpolatedPositions' = xInterpolatedPositions \o r.fine[1]
                   /\ yInterpolatedPositions' = yInterpolatedPositions \o r.fine[2]
                   /\ zInterpolatedPositions' = zInterpolatedPositions \o r.fine[3]
    /\ UNCHANGED <<frame, numberOfCoarsePoints, utmVars>>

\* lines 224-228
interpolation_publish_UTM ==
    /\ pc = "idle"
    /\ frame = "UTM"
    /\ pc' = "loop"
    /\ i' = 0
    /\ numberOfCoarsePoints' = Len(relativeEastings)
    /\ eastingInterpolatedPositions' = <<>>
    /\ northingInterpolatedPositions' = <<>>
    /\ UNCHANGED <<frame, centimetersPerPoint, relativeEastings, relativeNorthings,
                   ecefVars, calls, nextId>>

\* lines 230-234
LoopStepUTM ==
    /\ pc = "loop"
    /\ frame = "UTM"
    /\ i < numberOfCoarsePoints
    /\ \E r \in {interpolate_UTM(i, relativeEastings, relativeNorthings,
                                numberOfCoarsePoints, centimetersPerPoint, nextId)} :
           /\ calls' = Append(calls, CallRecord(r))
           /\ nextId' = nextId + 2
           /\ relativeEastings' = r.coarse[1]
           /\ relativeNorthings' = r.coarse[2]
           /\ centimetersPerPoint' = r.centimetersPerPoint
           /\ IF r.raised
              THEN /\ pc' = "error"
                   /\ UNCHANGED <<i, eastingInterpolatedPositions, northingInterpolatedPositions>>
              ELSE /\ pc' = "loop"
                   /\ i' = i + 1
                   /\ eastingInterpolatedPositions' = eastingInterpolatedPositions \o r.fine[1]
                   /\ northingInterpolatedPositions' = northingInterpolatedPositions \o r.fine[2]
    /\ UNCHANGED <<frame, numberOfCoarsePoints, ecefVars>>

\* the for loop is exhausted: the fine trajectory is complete and the
\* publishing loop (lines 125, 236) takes over
LoopExit ==
    /\ pc = "loop"
    /\ i = numberOfCoarsePoints
    /\ pc' = "done"
    /\ UNCHANGED <<frame, centimetersPerPoint, i, numberOfCoarsePoints,
                   ecefVars, utmVars, calls, nextId>>

Next ==
    \/ \E c \in Spacings : set_dist_between_points(c)
    \/ interpolation_publish_ECEF
    \/ LoopStepECEF
    \/ interpolation_publish_UTM
    \/ LoopStepUTM
    \/ LoopExit

Spec == Init /\ [][Next]_vars

\* ------------------------------------------------- views used by the claims
Axes == IF frame = "ECEF" THEN 3 ELSE 2

\* the coarse per-axis arrays of the interpolator in use
Coarse ==
    IF frame = "ECEF" THEN <<relativeX, relativeY, relativeZ>>
    ELSE <<relativeEastings, relativeNorthings>>

\* the accumulated fine per-axis lists
Fine ==
    IF frame = "ECEF"
    THEN <<xInterpolatedPositions, yInterpolatedPositions, zInterpolatedPositions>>
    ELSE <<eastingInterpolatedPositions, northingInterpolatedPositions>>

\* coarse point P_k (k counted from 0; a negative k counts from the end)
CoarsePoint(k) == [a \in 1..Axes |-> FromInt(PyIndex(Coarse[a], k))]

CoarsePoints == [k \in 1..Len(Coarse[1]) |-> CoarsePoint(k - 1)]

\* n-th point (n counted from 1) returned by the call recorded in c
EmittedPoint(c, n) == [a \in 1..Axes |-> c.fine[a][n]]

FineTrajectory == [n \in 1..Len(Fine[1]) |-> [a \in 1..Axes |-> Fine[a][n]]]

\* squared Euclidean distance between P_lo and P_hi over all axes of the frame
TrueDistanceSquared(lo, hi) ==
    LET sq(a) == (PyIndex(Coarse[a], hi) - PyIndex(Coarse[a], lo))
                 * (PyIndex(Coarse[a], hi) - PyIndex(Coarse[a], lo))
    IN  IF frame = "ECEF" THEN sq(1) + sq(2) + sq(3) ELSE sq(1) + sq(2)

RECURSIVE IsSubsequence(_, _)
IsSubsequence(s, t) ==
    IF s = <<>> THEN TRUE
    ELSE IF t = <<>> THEN FALSE
    ELSE IF Head(s) = Head(t) THEN IsSubsequence(Tail(s), Tail(t))
    ELSE IsSubsequence(s, Tail(t))

\* the run was configured with a valid (positive) spacing
ValidSpacing == centimetersPerPoint > 0

\* ------------------------------------------------------------------ claims

\* C1: for every segment index i in 0..N-2 the interpolation step emits
\* exactly pointDensity points, the n-th being P_i + (P_{i+1}-P_i)*(n/pointDensity)
\* on every axis; when pointDensity >= 1 the first emitted point is P_i and
\* P_{i+1} is never emitted by that step.
C1_SegmentEmission ==
    \A j \in 1..Len(calls) :
        LET c == calls[j]
        IN  (c.branch = "vanilla" /\ ~c.raised /\ c.selfSpacing > 0) =>
              /\ \A a \in 1..Axes : Len(c.fine[a]) = c.pointDensity
              /\ \A a \in 1..Axes : \A n \in 1..c.pointDensity :
                    c.fine[a][n] = InterpolatedValue(PyIndex(Coarse[a], c.i),
                                                     PyIndex(Coarse[a], c.i + 1),
                                                     n - 1, c.pointDensity)
              /\ c.pointDensity >= 1 => EmittedPoint(c, 1) = CoarsePoint(c.i)
              /\ \A n \in 1..c.pointDensity : EmittedPoint(c, n) # CoarsePoint(c.i + 1)

\* C2: the pointDensity used for a segment (P_lo, P_hi) equals
\* floor(d / (S / 100)) with d the true Euclidean distance between the two
\* points over all axes of the frame and S the spacing passed to the density
\* computation.
C2_DensityFromTrueDistance ==
    \A j \in 1..Len(calls) :
        LET c == calls[j]
        IN  (~c.raised /\ c.lo >= 0 /\ c.centimetersPerPoint > 0) =>
              c.pointDensity = IntOfQuotient(TrueDistanceSquared(c.lo, c.hi),
                                             c.centimetersPerPoint)

\* C3: every density computation of a run (forward segments and the
\* final-point corner case, in both interpolators) uses the spacing configured
\* on the object by the constructor or the last set_dist_between_points.
C3_ConfiguredSpacingUsed ==
    \A j \in 1..Len(calls) :
        (calls[j].lo >= 0 /\ calls[j].selfSpacing > 0) =>
            calls[j].centimetersPerPoint = calls[j].selfSpacing

\* C4: for N >= 2 the points appended for the last index N-1 are exactly the
\* points emitted for index N-2, so the fine trajectory ends with two
\* identical consecutive copies of the final segment's points.
C4_FinalSegmentDuplicated ==
    (pc = "done" /\ numberOfCoarsePoints >= 2 /\ ValidSpacing) =>
        LET last == calls[numberOfCoarsePoints]
            prev == calls[numberOfCoarsePoints - 1]
            m == Len(prev.fine[1])
        IN  /\ last.fine = prev.fine
            /\ \A a \in 1..Axes :
                  /\ Len(Fine[a]) >= 2 * m
                  /\ SubSeq(Fine[a], Len(Fine[a]) - 2 * m + 1, Len(Fine[a]))
                       = prev.fine[a] \o prev.fine[a]

\* C5: for N >= 2 and a positive spacing every coarse point P_0 .. P_{N-1}
\* appears in the fine trajectory, in the original order (stated here for the
\* paths without a degenerate segment, which are among those the claim covers).
C5_Coverage ==
    (/\ pc = "done"
     /\ numberOfCoarsePoints >= 2
     /\ ValidSpacing
     /\ \A k \in 0..(numberOfCoarsePoints - 2) : CoarsePoint(k) # CoarsePoint(k + 1)) =>
        IsSubsequence(CoarsePoints, FineTrajectory)

\* C6: for a positive spacing the fine trajectory has at least as many points
\* as the coarse sequence.
C6_FineAtLeastCoarse ==
    (pc = "done" /\ numberOfCoarsePoints >= 2 /\ ValidSpacing) =>
        Len(FineTrajectory) >= numberOfCoarsePoints

\* C7: a segment between two coincident coarse points, with a positive
\* spacing, computes pointDensity = 0, contributes no point and raises no
\* error.
C7_DegenerateSegment ==
    \A j \in 1..Len(calls) :
        LET c == calls[j]
        IN  (c.branch = "vanilla" /\ c.selfSpacing > 0
                /\ CoarsePoint(c.i) = CoarsePoint(c.i + 1)) =>
              /\ ~c.raised
              /\ c.pointDensity = 0
              /\ \A a \in 1..Axes : c.fine[a] = <<>>

\* C8: a run over fewer than 2 coarse points surfaces an error instead of
\* completing with a fine trajectory, and no call interpolates over a
\* wrapped-around (negative) index.
C8_InsufficientPointsRejected ==
    /\ (pc = "done" /\ ValidSpacing) => numberOfCoarsePoints >= 2
    /\ \A j \in 1..Len(calls) : calls[j].selfSpacing > 0 => calls[j].lo >= 0

\* C9: a zero or negative spacing is rejected before any fine point is
\* produced: no run with spacing <= 0 completes with a fine trajectory.
C9_InvalidSpacingRejected ==
    (pc = "done" /\ numberOfCoarsePoints >= 2) => centimetersPerPoint > 0

\* C10: throughout a run the coarse arrays and the configured spacing are
\* unchanged, and every interpolate_* call returns per-axis lists of equal
\* length that are newly created: distinct from each other, from the coarse
\* arrays and from every list returned before.
C10_FrameCondition ==
    [][ pc = "loop" =>
          /\ Coarse' = Coarse
          /\ centimetersPerPoint' = centimetersPerPoint
          /\ Len(calls') > Len(calls) =>
                LET c == calls'[Len(calls')]
                    idset == {c.ids[a] : a \in 1..Axes}
                IN  /\ Cardinality(idset) = Axes
                    /\ idset \cap CoarseIds = {}
                    /\ \A j \in 1..Len(calls) : \A a \in 1..Axes : calls[j].ids[a] \notin idset
                    /\ \A a \in 1..Axes : Len(c.fine[a]) = Len(c.fine[1]) ]_vars

\* a run of the ECEF interpolator, configured with a spacing other than the
\* literal of the corner case, has passed its last call (the corner case)
\* after a forward call that returned points
C10_Witness ==
    /\ frame = "ECEF"
    /\ pc = "loop"
    /\ numberOfCoarsePoints >= 2
    /\ i = numberOfCoarsePoints
    /\ centimetersPerPoint # HardCodedSpacing
    /\ calls[Len(calls)].branch = "corner"
    /\ calls[1].fine[1] # <<>>
    /\ Len(calls[Len(calls)].fine[1]) >= 2

====
